---- MODULE Spec2Model ----
(***************************************************************************)
(* TopoGraph: an undirected graph store (src/main/graph.py) and the        *)
(* algorithms built on it (src/main/algorithms/{connectivity,cycles,       *)
(* search}.py).                                                            *)
(*                                                                         *)
(* The Graph object is the three fields _graph, _vertex_count and          *)
(* _edge_count.  _graph is a dict vertex -> list of neighbours; it is      *)
(* modelled as a function whose DOMAIN is the set of keys and whose values *)
(* are sequences (the insertion-ordered adjacency lists).  The order of    *)
(* the dict's keys is not kept: it only decides the order in which         *)
(* get_edges lists the edges.  Every call records its name and arguments   *)
(* in `call` and what it returned or raised in `ret`.  `returned_list` is   *)
(* the list a caller holds from a call of get_neighbors, which object it   *)
(* is and the items it has; the caller lets go of it when it makes         *)
(* another call.                                                           *)
(***************************************************************************)
EXTENDS Integers, Sequences, FiniteSets, TLC

VARIABLES graph, vertex_count, edge_count, call, ret, returned_list

vars == <<graph, vertex_count, edge_count, call, ret, returned_list>>

(* Bounds of the model: vertices are the integers 1..NumVertices, and      *)
(* add_edge is not called once MaxEdges edges are counted.                 *)
NumVertices == 3
MaxEdges == 3

(* A caller changes a list it got from get_neighbors at most this often.  *)
MaxCallerChanges == 1

Vertices == 1..NumVertices

(* ---------------------------------------------------------------------- *)
(* Python values                                                           *)
(* ---------------------------------------------------------------------- *)

(* What a call produced: a returned value, None, or a raised exception.   *)
Returned(v) == [kind |-> "value", val |-> <<v>>]
None == [kind |-> "None", val |-> <<>>]
Raised(exc) == [kind |-> exc, val |-> <<>>]

(* x in list *)
InList(x, list) == \E i \in 1..Len(list) : list[i] = x

(* Index of the first occurrence of x in list (0 when there is none).     *)
IndexOf(x, list) ==
  IF InList(x, list)
    THEN CHOOSE i \in 1..Len(list) :
           list[i] = x /\ \A j \in 1..(i - 1) : list[j] # x
    ELSE 0

(* list.remove(x), for x in list: drops the first occurrence only.        *)
ListRemove(list, x) ==
  LET k == IndexOf(x, list)
  IN  [i \in 1..(Len(list) - 1) |-> IF i < k THEN list[i] ELSE list[i + 1]]

(* The Graph object as one value.                                          *)
Self == [graph |-> graph, vertex_count |-> vertex_count, edge_count |-> edge_count]

(* self._graph[key] on the defaultdict(list): a missing key is created    *)
(* with an empty list.                                                     *)
Touch(g, key) ==
  IF key \in DOMAIN g THEN g
  ELSE [x \in DOMAIN g \cup {key} |-> IF x = key THEN <<>> ELSE g[x]]

(* ---------------------------------------------------------------------- *)
(* Graph mutators: each maps the object to the object after the call and  *)
(* the call's outcome.                                                     *)
(* ---------------------------------------------------------------------- *)

add_vertex(self, vertex) ==
  IF vertex \notin DOMAIN self.graph
    THEN [self |-> [self EXCEPT !.graph = Touch(self.graph, vertex),
                                !.vertex_count = @ + 1],
          ret |-> Returned(TRUE)]
    ELSE [self |-> self, ret |-> Returned(FALSE)]

(* add_edge adding its endpoints before it rejects a self-loop.           *)
add_edge_adds_before_check(self, v1, v2) ==
  LET s1 == add_vertex(self, v1).self
      s2 == add_vertex(s1, v2).self
  IN  IF v1 = v2 THEN [self |-> s2, ret |-> Raised("ValueError")]
      ELSE IF InList(v2, s2.graph[v1])
        THEN [self |-> s2, ret |-> Returned(FALSE)]
        ELSE [self |-> [s2 EXCEPT !.graph[v1] = Append(@, v2),
                                  !.graph[v2] = Append(@, v1),
                                  !.edge_count = @ + 1],
              ret |-> Returned(TRUE)]

(* add_edge without the test for an edge that is already there.           *)
add_edge_no_duplicate_check(self, v1, v2) ==
  IF v1 = v2 THEN [self |-> self, ret |-> Raised("ValueError")]
  ELSE
    LET s1 == add_vertex(self, v1).self
        s2 == add_vertex(s1, v2).self
    IN  [self |-> [s2 EXCEPT !.graph[v1] = Append(@, v2),
                             !.graph[v2] = Append(@, v1),
                             !.edge_count = @ + 1],
         ret |-> Returned(TRUE)]

(* add_edge putting each endpoint at the front of the other's list.       *)
add_edge_prepends(self, v1, v2) ==
  IF v1 = v2 THEN [self |-> self, ret |-> Raised("ValueError")]
  ELSE
    LET s1 == add_vertex(self, v1).self
        s2 == add_vertex(s1, v2).self
    IN  IF InList(v2, s2.graph[v1])
          THEN [self |-> s2, ret |-> Returned(FALSE)]
          ELSE [self |-> [s2 EXCEPT !.graph[v1] = <<v2>> \o @,
                                    !.graph[v2] = <<v1>> \o @,
                                    !.edge_count = @ + 1],
                ret |-> Returned(TRUE)]

(* add_edge without the append to the second endpoint's list.             *)
add_edge_one_direction(self, v1, v2) ==
  IF v1 = v2 THEN [self |-> self, ret |-> Raised("ValueError")]
  ELSE
    LET s1 == add_vertex(self, v1).self
        s2 == add_vertex(s1, v2).self
    IN  IF InList(v2, s2.graph[v1])
          THEN [self |-> s2, ret |-> Returned(FALSE)]
          ELSE [self |-> [s2 EXCEPT !.graph[v1] = Append(@, v2),
                                    !.edge_count = @ + 1],
                ret |-> Returned(TRUE)]

add_edge(self, v1, v2) ==
  IF v1 = v2 THEN [self |-> self, ret |-> Raised("ValueError")]
  ELSE
    LET s1 == add_vertex(self, v1).self
        s2 == add_vertex(s1, v2).self
    IN  IF InList(v2, s2.graph[v1])
          THEN [self |-> s2, ret |-> Returned(FALSE)]
          ELSE [self |-> [s2 EXCEPT !.graph[v1] = Append(@, v2),
                                    !.graph[v2] = Append(@, v1),
                                    !.edge_count = @ + 1],
                ret |-> Returned(TRUE)]

(* The loop of remove_vertex from the i-th neighbour of vertex on.        *)
(* list.remove raises ValueError, and ends the call there, when the       *)
(* neighbour's list does not hold vertex.                                  *)
RECURSIVE remove_vertex_loop(_, _, _)
(* The loop counting the edges off without taking vertex out of the      *)
(* neighbours' lists.                                                      *)
remove_vertex_loop_keeps_entries(self, vertex, i) ==
  IF i > Len(self.graph[vertex]) THEN [self |-> self, raised |-> FALSE]
  ELSE remove_vertex_loop([self EXCEPT !.edge_count = @ - 1], vertex, i + 1)

remove_vertex_loop(self, vertex, i) ==
  IF i > Len(self.graph[vertex]) THEN [self |-> self, raised |-> FALSE]
  ELSE
    LET neighbor == self.graph[vertex][i]
        g == Touch(self.graph, neighbor)
    IN  IF ~InList(vertex, g[neighbor])
          THEN [self |-> [self EXCEPT !.graph = g], raised |-> TRUE]
          ELSE remove_vertex_loop(
                 [self EXCEPT !.graph = [g EXCEPT ![neighbor] = ListRemove(@, vertex)],
                              !.edge_count = @ - 1],
                 vertex, i + 1)

(* remove_vertex with the decrement of _edge_count after the loop instead *)
(* of inside it: once per call, not once per neighbour.                    *)
remove_vertex_one_decrement(self, vertex) ==
  IF vertex \notin DOMAIN self.graph THEN [self |-> self, ret |-> Returned(FALSE)]
  ELSE
    LET r == remove_vertex_loop(self, vertex, 1)
    IN  IF r.raised THEN [self |-> r.self, ret |-> Raised("ValueError")]
        ELSE [self |-> [r.self EXCEPT
                          !.graph = [x \in DOMAIN r.self.graph \ {vertex} |-> r.self.graph[x]],
                          !.vertex_count = @ - 1,
                          !.edge_count = self.edge_count - 1],
              ret |-> Returned(TRUE)]

remove_vertex(self, vertex) ==
  IF vertex \notin DOMAIN self.graph THEN [self |-> self, ret |-> Returned(FALSE)]
  ELSE
    LET r == remove_vertex_loop(self, vertex, 1)
    IN  IF r.raised THEN [self |-> r.self, ret |-> Raised("ValueError")]
        ELSE [self |-> [r.self EXCEPT
                          !.graph = [x \in DOMAIN r.self.graph \ {vertex} |-> r.self.graph[x]],
                          !.vertex_count = @ - 1],
              ret |-> Returned(TRUE)]

remove_edge(self, v1, v2) ==
  IF v1 \notin DOMAIN self.graph \/ v2 \notin DOMAIN self.graph
    THEN [self |-> self, ret |-> Returned(FALSE)]
  ELSE IF ~InList(v2, self.graph[v1])
    THEN [self |-> self, ret |-> Returned(FALSE)]
  ELSE
    LET s1 == [self EXCEPT !.graph[v1] = ListRemove(@, v2)]
    IN  IF ~InList(v1, s1.graph[v2])
          THEN [self |-> s1, ret |-> Raised("ValueError")]
          ELSE [self |-> [s1 EXCEPT !.graph[v2] = ListRemove(@, v1),
                                    !.edge_count = @ - 1],
                ret |-> Returned(TRUE)]

(* ---------------------------------------------------------------------- *)
(* Graph queries                                                           *)
(* ---------------------------------------------------------------------- *)

get_neighbors(self, vertex) ==
  IF vertex \notin DOMAIN self.graph THEN Raised("KeyError")
  ELSE Returned(self.graph[vertex])

(* get_neighbors looking its list up without the test for the key: the   *)
(* defaultdict creates the key.                                            *)
after_get_neighbors_unchecked(self, vertex) ==
  [self EXCEPT !.graph = Touch(@, vertex)]

(* The object after get_neighbors(vertex): self._graph[vertex] is         *)
(* evaluated, on the defaultdict, only for a key that is there.            *)
after_get_neighbors(self, vertex) ==
  IF vertex \notin DOMAIN self.graph THEN self
  ELSE [self EXCEPT !.graph = Touch(@, vertex)]

(* List objects.  The adjacency list of vertex v is the object <<v>>; a   *)
(* list that a call creates is the object <<>>, no part of the graph.     *)

(* Handing out the list itself.                                            *)
same_list(object) == object

(* list.copy(): a new list.                                                *)
list_copy(object) == <<>>

get_vertices(self) == DOMAIN self.graph

(* The keys of the dict as an ascending sequence: the order in which      *)
(* get_edges walks them (the dict's own key order would only list the     *)
(* same edges in another order).                                           *)
RECURSIVE Ascending(_)
Ascending(S) ==
  IF S = {} THEN <<>>
  ELSE LET m == CHOOSE x \in S : \A y \in S : x <= y
       IN  <<m>> \o Ascending(S \ {m})

(* tuple(sorted([v1, v2])) *)
SortedPair(v1, v2) == IF v1 <= v2 THEN <<v1, v2>> ELSE <<v2, v1>>

(* get_edges: the double loop over keys ks[k..] and, in the k-th key's    *)
(* list, the entries from i on; edges is the list built so far (seen      *)
(* holds exactly its elements).                                            *)
RECURSIVE get_edges_loop(_, _, _, _, _)
get_edges_loop(self, ks, k, i, edges) ==
  IF k > Len(ks) THEN edges
  ELSE IF i > Len(self.graph[ks[k]]) THEN get_edges_loop(self, ks, k + 1, 1, edges)
  ELSE
    LET edge == SortedPair(ks[k], self.graph[ks[k]][i])
    IN  get_edges_loop(self, ks, k, i + 1,
                       IF InList(edge, edges) THEN edges ELSE Append(edges, edge))

get_edges(self) == get_edges_loop(self, Ascending(DOMAIN self.graph), 1, 1, <<>>)

len(self) == self.vertex_count

size(self) == self.edge_count

(* ---------------------------------------------------------------------- *)
(* Iteration over a Python set                                             *)
(* ---------------------------------------------------------------------- *)

(* A set is iterated in an order its hash table decides; an algorithm     *)
(* that iterates get_vertices() may meet the vertices in any order.       *)
RECURSIVE IterOrders(_)
IterOrders(S) ==
  IF S = {} THEN {<<>>}
  ELSE UNION {{<<x>> \o p : p \in IterOrders(S \ {x})} : x \in S}

(* next(iter(S)) for a non-empty part S of the set iterated in order.     *)
NextIter(order, S) ==
  order[CHOOSE i \in 1..Len(order) :
          order[i] \in S /\ \A j \in 1..(i - 1) : order[j] \notin S]

(* list(reversed(path)) *)
Reversed(path) == [i \in 1..Len(path) |-> path[Len(path) + 1 - i]]

(* ---------------------------------------------------------------------- *)
(* algorithms/connectivity.py                                              *)
(* ---------------------------------------------------------------------- *)

(* The while loop of _reconstruct_path, path being the list so far.       *)
RECURSIVE reconstruct_path_loop(_, _, _, _)
reconstruct_path_loop(predecessors, start, current, path) ==
  IF current = start THEN path
  ELSE reconstruct_path_loop(predecessors, start, predecessors[current],
                             Append(path, predecessors[current]))

reconstruct_path(predecessors, start, end) ==
  Reversed(reconstruct_path_loop(predecessors, start, end, <<end>>))

(* _bfs_visit: st is [visited, queue]; the for loop runs over the copy    *)
(* nbrs of current's list from entry i on.                                 *)
RECURSIVE bfs_visit_while(_, _), bfs_visit_for(_, _, _, _)
bfs_visit_while(self, st) ==
  IF st.queue = <<>> THEN st.visited
  ELSE bfs_visit_for(self, get_neighbors(self, Head(st.queue)).val[1], 1,
                     [st EXCEPT !.queue = Tail(@)])

bfs_visit_for(self, nbrs, i, st) ==
  IF i > Len(nbrs) THEN bfs_visit_while(self, st)
  ELSE IF nbrs[i] \notin st.visited
    THEN bfs_visit_for(self, nbrs, i + 1,
                       [visited |-> st.visited \cup {nbrs[i]},
                        queue |-> Append(st.queue, nbrs[i])])
    ELSE bfs_visit_for(self, nbrs, i + 1, st)

bfs_visit(self, start) == bfs_visit_while(self, [visited |-> {start}, queue |-> <<start>>])

(* order: the order in which the set get_vertices() is iterated.          *)
is_connected(self, order) ==
  IF len(self) <= 1 THEN Returned(TRUE)
  ELSE Returned(Cardinality(bfs_visit(self, NextIter(order, get_vertices(self)))) = len(self))

(* find_path: st is [visited, predecessors, queue].                        *)
RECURSIVE find_path_while(_, _, _, _), find_path_for(_, _, _, _, _, _, _)
find_path_while(self, start, end, st) ==
  IF st.queue = <<>> THEN None
  ELSE find_path_for(self, start, end, Head(st.queue),
                     get_neighbors(self, Head(st.queue)).val[1], 1,
                     [st EXCEPT !.queue = Tail(@)])

(* find_path's for loop recording start, not current, as the predecessor. *)
find_path_for_wrong_predecessor(self, start, end, current, nbrs, i, st) ==
  IF i > Len(nbrs) THEN find_path_while(self, start, end, st)
  ELSE IF nbrs[i] \notin st.visited
    THEN LET st1 == [visited |-> st.visited \cup {nbrs[i]},
                     predecessors |-> (nbrs[i] :> start) @@ st.predecessors,
                     queue |-> Append(st.queue, nbrs[i])]
         IN  IF nbrs[i] = end
               THEN Returned(reconstruct_path(st1.predecessors, start, end))
               ELSE find_path_for(self, start, end, current, nbrs, i + 1, st1)
    ELSE find_path_for(self, start, end, current, nbrs, i + 1, st)

find_path_for(self, start, end, current, nbrs, i, st) ==
  IF i > Len(nbrs) THEN find_path_while(self, start, end, st)
  ELSE IF nbrs[i] \notin st.visited
    THEN LET st1 == [visited |-> st.visited \cup {nbrs[i]},
                     predecessors |-> (nbrs[i] :> current) @@ st.predecessors,
                     queue |-> Append(st.queue, nbrs[i])]
         IN  IF nbrs[i] = end
               THEN Returned(reconstruct_path(st1.predecessors, start, end))
               ELSE find_path_for(self, start, end, current, nbrs, i + 1, st1)
    ELSE find_path_for(self, start, end, current, nbrs, i + 1, st)

(* find_path without the answer [start] for start == end.                 *)
find_path_no_same_vertex_case(self, start, end) ==
  IF start \notin get_vertices(self) THEN Raised("KeyError")
  ELSE IF end \notin get_vertices(self) THEN Raised("KeyError")
  ELSE find_path_while(self, start, end,
                       [visited |-> {start}, predecessors |-> <<>>, queue |-> <<start>>])

find_path(self, start, end) ==
  IF start \notin get_vertices(self) THEN Raised("KeyError")
  ELSE IF end \notin get_vertices(self) THEN Raised("KeyError")
  ELSE IF start = end THEN Returned(<<start>>)
  ELSE find_path_while(self, start, end,
                       [visited |-> {start}, predecessors |-> <<>>, queue |-> <<start>>])

(* get_connected_components: the while loop, components being the list    *)
(* so far.                                                                 *)
RECURSIVE get_connected_components_loop(_, _, _, _)
(* The loop taking only the seed, not its component, out of unvisited.    *)
get_connected_components_loop_seed_only(self, order, unvisited, components) ==
  IF unvisited = {} THEN components
  ELSE LET start == NextIter(order, unvisited)
       IN  get_connected_components_loop(self, order, unvisited \ {start},
                                         Append(components, bfs_visit(self, start)))

get_connected_components_loop(self, order, unvisited, components) ==
  IF unvisited = {} THEN components
  ELSE LET component == bfs_visit(self, NextIter(order, unvisited))
       IN  get_connected_components_loop(self, order, unvisited \ component,
                                         Append(components, component))

get_connected_components(self, order) ==
  Returned(get_connected_components_loop(self, order, get_vertices(self), <<>>))

(* is_tree without the comparison of the edge count.                       *)
is_tree_no_edge_count(self, order) ==
  IF len(self) = 0 THEN Returned(TRUE)
  ELSE is_connected(self, order)

is_tree(self, order) ==
  IF len(self) = 0 THEN Returned(TRUE)
  ELSE IF size(self) # len(self) - 1 THEN Returned(FALSE)
  ELSE is_connected(self, order)

(* ---------------------------------------------------------------------- *)
(* algorithms/search.py                                                    *)
(* ---------------------------------------------------------------------- *)

(* breadth_first_search: st is [visited_order, distances, predecessors,   *)
(* queue].  A predecessor is <<v>>, or <<>> for None.                      *)
RECURSIVE bfs_while(_, _), bfs_for(_, _, _, _, _)
bfs_while(self, st) ==
  IF st.queue = <<>>
    THEN [visited_order |-> st.visited_order, distances |-> st.distances,
          predecessors |-> st.predecessors]
  ELSE bfs_for(self, Head(st.queue), get_neighbors(self, Head(st.queue)).val[1], 1,
               [st EXCEPT !.queue = Tail(@),
                          !.visited_order = Append(@, Head(st.queue))])

bfs_for(self, current, nbrs, i, st) ==
  IF i > Len(nbrs) THEN bfs_while(self, st)
  ELSE IF nbrs[i] \notin DOMAIN st.distances
    THEN bfs_for(self, current, nbrs, i + 1,
                 [st EXCEPT !.distances = (nbrs[i] :> (st.distances[current] + 1)) @@ @,
                            !.predecessors = (nbrs[i] :> <<current>>) @@ @,
                            !.queue = Append(@, nbrs[i])])
    ELSE bfs_for(self, current, nbrs, i + 1, st)

breadth_first_search(self, start) ==
  IF start \notin get_vertices(self) THEN Raised("KeyError")
  ELSE Returned(bfs_while(self, [visited_order |-> <<>>,
                                 distances |-> (start :> 0),
                                 predecessors |-> (start :> <<>>),
                                 queue |-> <<start>>]))

(* The while loop of find_path_bfs; current is <<v>>, or <<>> for None.   *)
RECURSIVE find_path_bfs_loop(_, _, _)
find_path_bfs_loop(predecessors, current, path) ==
  IF current = <<>> THEN path
  ELSE find_path_bfs_loop(predecessors, predecessors[current[1]],
                          Append(path, current[1]))

find_path_bfs(self, start, end) ==
  LET result == breadth_first_search(self, start)
  IN  IF result.kind # "value" THEN result
      ELSE LET predecessors == result.val[1].predecessors
           IN  IF end \notin DOMAIN predecessors THEN None
               ELSE Returned(Reversed(find_path_bfs_loop(predecessors, <<end>>, <<>>)))

(* ---------------------------------------------------------------------- *)
(* algorithms/cycles.py                                                    *)
(* ---------------------------------------------------------------------- *)

(* has_cycle: st is [visited, path_vertices, found]; found is the value   *)
(* dfs_cycle_check returned.                                               *)
RECURSIVE dfs_cycle_check(_, _, _), dfs_cycle_check_for(_, _, _, _, _)
dfs_cycle_check(self, vertex, st) ==
  dfs_cycle_check_for(self, vertex, get_neighbors(self, vertex).val[1], 1,
                      [visited |-> st.visited \cup {vertex},
                       path_vertices |-> st.path_vertices \cup {vertex},
                       found |-> FALSE])

dfs_cycle_check_for(self, vertex, nbrs, i, st) ==
  IF i > Len(nbrs) THEN [st EXCEPT !.path_vertices = @ \ {vertex}]
  ELSE IF nbrs[i] \notin st.visited
    THEN LET r == dfs_cycle_check(self, nbrs[i], st)
         IN  IF r.found THEN r
             ELSE dfs_cycle_check_for(self, vertex, nbrs, i + 1, r)
  ELSE IF nbrs[i] \in st.path_vertices
    THEN [st EXCEPT !.found = TRUE]
  ELSE dfs_cycle_check_for(self, vertex, nbrs, i + 1, st)

(* The loop over get_vertices(), met in the given order, from entry k on. *)
RECURSIVE has_cycle_loop(_, _, _, _)
has_cycle_loop(self, order, k, st) ==
  IF k > Len(order) THEN FALSE
  ELSE IF order[k] \notin st.visited
    THEN LET r == dfs_cycle_check(self, order[k], st)
         IN  IF r.found THEN TRUE ELSE has_cycle_loop(self, order, k + 1, r)
  ELSE has_cycle_loop(self, order, k + 1, st)

has_cycle(self, order) ==
  Returned(has_cycle_loop(self, order, 1,
                          [visited |-> {}, path_vertices |-> {}, found |-> FALSE]))

(* find_cycle: path_vertices is the dict vertex -> position, kept as the  *)
(* list of its items <<vertex, position>> in insertion order.              *)
DictKeys(items) == {items[i][1] : i \in 1..Len(items)}

DictGet(items, key) == items[CHOOSE i \in 1..Len(items) : items[i][1] = key][2]

DictPop(items, key) == SelectSeq(items, LAMBDA item : item[1] # key)

(* [v for v, pos in path_vertices.items() if cycle_start <= pos <= current_pos] *)
CycleRun(items, cycle_start, current_pos) ==
  LET kept == SelectSeq(items, LAMBDA item : cycle_start <= item[2] /\ item[2] <= current_pos)
  IN  [i \in 1..Len(kept) |-> kept[i][1]]

(* st is [visited, path_vertices, cycle]; cycle is the value               *)
(* dfs_find_cycle returned.                                                *)
RECURSIVE dfs_find_cycle(_, _, _, _), dfs_find_cycle_for(_, _, _, _, _, _)
dfs_find_cycle(self, vertex, path_pos, st) ==
  dfs_find_cycle_for(self, vertex, path_pos, get_neighbors(self, vertex).val[1], 1,
                     [visited |-> st.visited \cup {vertex},
                      path_vertices |-> Append(st.path_vertices, <<vertex, path_pos>>),
                      cycle |-> None])

dfs_find_cycle_for(self, vertex, path_pos, nbrs, i, st) ==
  IF i > Len(nbrs) THEN [st EXCEPT !.path_vertices = DictPop(@, vertex)]
  ELSE IF nbrs[i] \notin st.visited
    THEN LET r == dfs_find_cycle(self, nbrs[i], path_pos + 1, st)
         IN  IF r.cycle.kind # "None" THEN r
             ELSE dfs_find_cycle_for(self, vertex, path_pos, nbrs, i + 1, r)
  ELSE IF nbrs[i] \in DictKeys(st.path_vertices)
    THEN [st EXCEPT !.cycle =
            Returned(CycleRun(st.path_vertices,
                              DictGet(st.path_vertices, nbrs[i]),
                              DictGet(st.path_vertices, vertex)))]
  ELSE dfs_find_cycle_for(self, vertex, path_pos, nbrs, i + 1, st)

RECURSIVE find_cycle_loop(_, _, _, _)
find_cycle_loop(self, order, k, st) ==
  IF k > Len(order) THEN None
  ELSE IF order[k] \notin st.visited
    THEN LET r == dfs_find_cycle(self, order[k], 0, st)
         IN  IF r.cycle.kind # "None" THEN r.cycle
             ELSE find_cycle_loop(self, order, k + 1, r)
  ELSE find_cycle_loop(self, order, k + 1, st)

find_cycle(self, order) ==
  find_cycle_loop(self, order, 1, [visited |-> {}, path_vertices |-> <<>>, cycle |-> None])

(* find_all_cycles.  find_cycles_from_start works on its own copies of    *)
(* visited and path, so it is a function of them; cycles is its list so   *)
(* far.                                                                    *)
RECURSIVE find_cycles_from_start(_, _, _, _), find_cycles_from_start_for(_, _, _, _, _, _)
find_cycles_from_start(self, start, visited, path) ==
  find_cycles_from_start_for(self, get_neighbors(self, start).val[1], 1,
                             visited \cup {start}, Append(path, start), <<>>)

find_cycles_from_start_for(self, nbrs, i, visited, path, cycles) ==
  IF i > Len(nbrs) THEN cycles
  ELSE IF nbrs[i] \notin visited
    THEN find_cycles_from_start_for(self, nbrs, i + 1, visited, path,
           cycles \o find_cycles_from_start(self, nbrs[i], visited, path))
  ELSE IF nbrs[i] = path[1] /\ Len(path) > 2
    THEN find_cycles_from_start_for(self, nbrs, i + 1, visited, path, Append(cycles, path))
  ELSE find_cycles_from_start_for(self, nbrs, i + 1, visited, path, cycles)

(* a < b for two Python lists of integers.                                 *)
ListLess(a, b) ==
  \/ \E k \in 1..Len(a) :
       /\ k <= Len(b)
       /\ a[k] < b[k]
       /\ \A j \in 1..(k - 1) : a[j] = b[j]
  \/ /\ Len(a) < Len(b)
     /\ \A j \in 1..Len(a) : a[j] = b[j]

(* cycle[i:] + cycle[:i] *)
Rotation(cycle, i) ==
  [j \in 1..Len(cycle) |-> cycle[((i + j - 1) % Len(cycle)) + 1]]

(* tuple(min(cycle[i:] + cycle[:i] for i in range(len(cycle)))) *)
Normalized(cycle) ==
  LET rotations == {Rotation(cycle, i) : i \in 0..(Len(cycle) - 1)}
  IN  CHOOSE r \in rotations : \A q \in rotations : ~ListLess(q, r)

(* The inner loop of find_all_cycles: the cycles found from one vertex    *)
(* are added to all_cycles unless their normal form is already there.     *)
RECURSIVE keep_new_cycles(_, _, _)
(* The inner loop of find_all_cycles keeping every cycle found.           *)
keep_every_cycle(cycles, j, all_cycles) ==
  IF j > Len(cycles) THEN all_cycles
  ELSE keep_new_cycles(cycles, j + 1, Append(all_cycles, cycles[j]))

keep_new_cycles(cycles, j, all_cycles) ==
  IF j > Len(cycles) THEN all_cycles
  ELSE keep_new_cycles(cycles, j + 1,
         IF Normalized(cycles[j]) \notin {Normalized(all_cycles[n]) : n \in 1..Len(all_cycles)}
           THEN Append(all_cycles, cycles[j])
           ELSE all_cycles)

RECURSIVE find_all_cycles_loop(_, _, _, _)
find_all_cycles_loop(self, order, k, all_cycles) ==
  IF k > Len(order) THEN all_cycles
  ELSE find_all_cycles_loop(self, order, k + 1,
         keep_new_cycles(find_cycles_from_start(self, order[k], {}, <<>>), 1, all_cycles))

find_all_cycles(self, order) == Returned(find_all_cycles_loop(self, order, 1, <<>>))

(* get_cycle_basis.  The while loop that walks the parent dict from the   *)
(* current vertex to the neighbour: parent[current] raises KeyError when  *)
(* current has no parent.                                                  *)
RECURSIVE cycle_walk(_, _, _, _)
cycle_walk(parent, current, neighbor, cycle) ==
  IF current = neighbor THEN [raised |-> FALSE, cycle |-> cycle]
  ELSE IF current \notin DOMAIN parent THEN [raised |-> TRUE, cycle |-> Append(cycle, current)]
  ELSE cycle_walk(parent, parent[current], neighbor, Append(cycle, current))

(* st is [visited, parent, cycle_basis, raised].                           *)
RECURSIVE dfs_cycle_basis(_, _, _), dfs_cycle_basis_for(_, _, _, _, _)
dfs_cycle_basis(self, vertex, st) ==
  dfs_cycle_basis_for(self, vertex, get_neighbors(self, vertex).val[1], 1,
                      [st EXCEPT !.visited = @ \cup {vertex}])

dfs_cycle_basis_for(self, vertex, nbrs, i, st) ==
  IF i > Len(nbrs) THEN st
  ELSE IF nbrs[i] \notin st.visited
    THEN LET r == dfs_cycle_basis(self, nbrs[i],
                                  [st EXCEPT !.parent = (nbrs[i] :> vertex) @@ @])
         IN  IF r.raised THEN r
             ELSE dfs_cycle_basis_for(self, vertex, nbrs, i + 1, r)
  ELSE IF vertex \notin DOMAIN st.parent \/ nbrs[i] # st.parent[vertex]
    THEN LET w == cycle_walk(st.parent, vertex, nbrs[i], <<>>)
         IN  IF w.raised THEN [st EXCEPT !.raised = TRUE]
             ELSE dfs_cycle_basis_for(self, vertex, nbrs, i + 1,
                    [st EXCEPT !.cycle_basis =
                       Append(@, Append(Append(w.cycle, nbrs[i]), vertex))])
  ELSE dfs_cycle_basis_for(self, vertex, nbrs, i + 1, st)

RECURSIVE get_cycle_basis_loop(_, _, _, _)
get_cycle_basis_loop(self, order, k, st) ==
  IF k > Len(order) THEN Returned(st.cycle_basis)
  ELSE IF order[k] \notin st.visited
    THEN LET r == dfs_cycle_basis(self, order[k], st)
         IN  IF r.raised THEN Raised("KeyError")
             ELSE get_cycle_basis_loop(self, order, k + 1, r)
  ELSE get_cycle_basis_loop(self, order, k + 1, st)

get_cycle_basis(self, order) ==
  get_cycle_basis_loop(self, order, 1,
                       [visited |-> {}, parent |-> <<>>, cycle_basis |-> <<>>,
                        raised |-> FALSE])

(* ---------------------------------------------------------------------- *)
(* search.py: depth_first_search and find_all_paths_dfs                    *)
(* ---------------------------------------------------------------------- *)

(* list.pop(): the list without its last entry.                            *)
Pop(list) == SubSeq(list, 1, Len(list) - 1)

(* dfs_visit(vertex) and its for loop from the i-th neighbour on.  st is  *)
(* the variables of the enclosing call: visited_order, discovery_times,   *)
(* finish_times, predecessors and time.                                    *)
RECURSIVE dfs_visit(_, _, _), dfs_visit_for(_, _, _, _, _)
dfs_visit(self, vertex, st) ==
  dfs_visit_for(self, vertex, get_neighbors(self, vertex).val[1], 1,
                [st EXCEPT !.time = @ + 1,
                           !.discovery_times = (vertex :> (st.time + 1)) @@ @,
                           !.visited_order = Append(@, vertex)])

(* The loop finishing a vertex at the current time, the clock not         *)
(* advanced.                                                               *)
dfs_visit_for_finish_without_tick(self, vertex, nbrs, i, st) ==
  IF i > Len(nbrs)
    THEN [st EXCEPT !.finish_times = (vertex :> st.time) @@ @]
  ELSE IF nbrs[i] \notin DOMAIN st.discovery_times
    THEN dfs_visit_for(self, vertex, nbrs, i + 1,
                       dfs_visit(self, nbrs[i],
                                 [st EXCEPT !.predecessors = (nbrs[i] :> <<vertex>>) @@ @]))
    ELSE dfs_visit_for(self, vertex, nbrs, i + 1, st)

dfs_visit_for(self, vertex, nbrs, i, st) ==
  IF i > Len(nbrs)
    THEN [st EXCEPT !.time = @ + 1,
                    !.finish_times = (vertex :> (st.time + 1)) @@ @]
  ELSE IF nbrs[i] \notin DOMAIN st.discovery_times
    THEN dfs_visit_for(self, vertex, nbrs, i + 1,
                       dfs_visit(self, nbrs[i],
                                 [st EXCEPT !.predecessors = (nbrs[i] :> <<vertex>>) @@ @]))
    ELSE dfs_visit_for(self, vertex, nbrs, i + 1, st)

depth_first_search(self, start) ==
  IF start \notin get_vertices(self) THEN Raised("KeyError")
  ELSE
    LET st == dfs_visit(self, start, [visited_order |-> <<>>,
                                      discovery_times |-> <<>>,
                                      finish_times |-> <<>>,
                                      predecessors |-> (start :> <<>>),
                                      time |-> 0])
    IN  Returned([visited_order |-> st.visited_order,
                  discovery_times |-> st.discovery_times,
                  finish_times |-> st.finish_times,
                  predecessors |-> st.predecessors])

(* dfs_paths(current, path, paths) and its for loop from the i-th         *)
(* neighbour on.  path and paths are the two lists the calls share; each  *)
(* call gives them back as it leaves them.                                 *)
RECURSIVE dfs_paths(_, _, _, _, _), dfs_paths_for(_, _, _, _, _, _)
dfs_paths(self, end, current, path, paths) ==
  IF current = end THEN [path |-> path, paths |-> Append(paths, path)]
  ELSE dfs_paths_for(self, end, get_neighbors(self, current).val[1], 1, path, paths)

(* The loop without path.pop() after the recursive call.                   *)
dfs_paths_for_without_pop(self, end, nbrs, i, path, paths) ==
  IF i > Len(nbrs) THEN [path |-> path, paths |-> paths]
  ELSE IF ~InList(nbrs[i], path)
    THEN LET r == dfs_paths(self, end, nbrs[i], Append(path, nbrs[i]), paths)
         IN  dfs_paths_for(self, end, nbrs, i + 1, r.path, r.paths)
    ELSE dfs_paths_for(self, end, nbrs, i + 1, path, paths)

dfs_paths_for(self, end, nbrs, i, path, paths) ==
  IF i > Len(nbrs) THEN [path |-> path, paths |-> paths]
  ELSE IF ~InList(nbrs[i], path)
    THEN LET r == dfs_paths(self, end, nbrs[i], Append(path, nbrs[i]), paths)
         IN  dfs_paths_for(self, end, nbrs, i + 1, Pop(r.path), r.paths)
    ELSE dfs_paths_for(self, end, nbrs, i + 1, path, paths)

find_all_paths_dfs(self, start, end) ==
  IF start \notin get_vertices(self) \/ end \notin get_vertices(self)
    THEN Raised("KeyError")
    ELSE Returned(dfs_paths(self, end, start, <<start>>, <<>>).paths)

(* ---------------------------------------------------------------------- *)
(* The state machine of the store                                          *)
(* ---------------------------------------------------------------------- *)

Init ==
  /\ graph = <<>>
  /\ vertex_count = 0
  /\ edge_count = 0
  /\ call = [op |-> "__init__", args |-> <<>>]
  /\ ret = None
  /\ returned_list = <<>>

(* The object after the call, and the call's record.                       *)
Becomes(r, op, args) ==
  /\ graph' = r.self.graph
  /\ vertex_count' = r.self.vertex_count
  /\ edge_count' = r.self.edge_count
  /\ call' = [op |-> op, args |-> args]
  /\ ret' = r.ret
  /\ returned_list' = <<>>

AddVertex ==
  \E v \in Vertices : Becomes(add_vertex(Self, v), "add_vertex", <<v>>)

AddEdge ==
  /\ edge_count < MaxEdges
  /\ \E v1, v2 \in Vertices : Becomes(add_edge(Self, v1, v2), "add_edge", <<v1, v2>>)

RemoveVertex ==
  \E v \in Vertices : Becomes(remove_vertex(Self, v), "remove_vertex", <<v>>)

RemoveEdge ==
  \E v1, v2 \in Vertices : Becomes(remove_edge(Self, v1, v2), "remove_edge", <<v1, v2>>)

Mutate == AddVertex \/ AddEdge \/ RemoveVertex \/ RemoveEdge

Next == Mutate

Spec == Init /\ [][Next]_vars

(* ---------------------------------------------------------------------- *)
(* Calls of the connectivity and path functions on the store               *)
(* ---------------------------------------------------------------------- *)

(* A call that only reads the graph.                                       *)
Answers(r, op, args) ==
  /\ call' = [op |-> op, args |-> args]
  /\ ret' = r
  /\ returned_list' = <<>>
  /\ UNCHANGED <<graph, vertex_count, edge_count>>

IsConnected ==
  \E order \in IterOrders(get_vertices(Self)) :
    Answers(is_connected(Self, order), "is_connected", <<>>)

FindPath ==
  \E start, end \in Vertices :
    Answers(find_path(Self, start, end), "find_path", <<start, end>>)

GetConnectedComponents ==
  \E order \in IterOrders(get_vertices(Self)) :
    Answers(get_connected_components(Self, order), "get_connected_components", <<>>)

IsTree ==
  \E order \in IterOrders(get_vertices(Self)) :
    Answers(is_tree(Self, order), "is_tree", <<>>)

FindPathBfs ==
  \E start, end \in Vertices :
    Answers(find_path_bfs(Self, start, end), "find_path_bfs", <<start, end>>)

NextConnectivity ==
  Mutate \/ IsConnected \/ FindPath \/ GetConnectedComponents \/ IsTree \/ FindPathBfs

SpecConnectivity == Init /\ [][NextConnectivity]_vars

(* ---------------------------------------------------------------------- *)
(* Calls of the cycle functions on the store                               *)
(* ---------------------------------------------------------------------- *)

HasCycle ==
  \E order \in IterOrders(get_vertices(Self)) :
    Answers(has_cycle(Self, order), "has_cycle", <<>>)

FindCycle ==
  \E order \in IterOrders(get_vertices(Self)) :
    Answers(find_cycle(Self, order), "find_cycle", <<>>)

FindAllCycles ==
  \E order \in IterOrders(get_vertices(Self)) :
    Answers(find_all_cycles(Self, order), "find_all_cycles", <<>>)

GetCycleBasis ==
  \E order \in IterOrders(get_vertices(Self)) :
    Answers(get_cycle_basis(Self, order), "get_cycle_basis", <<>>)

NextCycles == Mutate \/ HasCycle \/ FindCycle \/ FindAllCycles \/ GetCycleBasis

SpecCycles == Init /\ [][NextCycles]_vars

(* ---------------------------------------------------------------------- *)
(* The store together with the searches of search.py                       *)
(* ---------------------------------------------------------------------- *)

BreadthFirstSearch ==
  \E start \in Vertices :
    Answers(breadth_first_search(Self, start), "breadth_first_search", <<start>>)

DepthFirstSearch ==
  \E start \in Vertices :
    Answers(depth_first_search(Self, start), "depth_first_search", <<start>>)

FindAllPathsDfs ==
  \E start, end \in Vertices :
    Answers(find_all_paths_dfs(Self, start, end), "find_all_paths_dfs", <<start, end>>)

NextSearch == Mutate \/ BreadthFirstSearch \/ DepthFirstSearch \/ FindAllPathsDfs

SpecSearch == Init /\ [][NextSearch]_vars

(* ---------------------------------------------------------------------- *)
(* The store with its queries and the caller of get_neighbors              *)
(* ---------------------------------------------------------------------- *)

(* get_neighbors(vertex); the caller holds the list it returned.           *)
GetNeighbors ==
  \E vertex \in Vertices :
    LET r == get_neighbors(Self, vertex)
        after == after_get_neighbors(Self, vertex)
    IN  /\ graph' = after.graph
        /\ vertex_count' = after.vertex_count
        /\ edge_count' = after.edge_count
        /\ call' = [op |-> "get_neighbors", args |-> <<vertex>>]
        /\ ret' = r
        /\ returned_list' =
             IF r.kind = "value"
               THEN <<[vertex |-> vertex, object |-> list_copy(<<vertex>>),
                       items |-> r.val[1], changes |-> 0]>>
               ELSE <<>>

GetVertices ==
  Becomes([self |-> Self, ret |-> Returned(get_vertices(Self))], "get_vertices", <<>>)

GetEdges ==
  Becomes([self |-> Self, ret |-> Returned(get_edges(Self))], "get_edges", <<>>)

Length ==
  Becomes([self |-> Self, ret |-> Returned(len(Self))], "__len__", <<>>)

Size ==
  Becomes([self |-> Self, ret |-> Returned(size(Self))], "size", <<>>)

Query == GetNeighbors \/ GetVertices \/ GetEdges \/ Length \/ Size

(* What one change by the caller can make of a list: an item appended,    *)
(* an item removed, the order reversed.                                    *)
ListChanges(list) ==
  {Append(list, x) : x \in Vertices}
    \cup {ListRemove(list, list[i]) : i \in 1..Len(list)}
    \cup {Reversed(list)}

(* The caller changes the list it holds.  The change is a change of the   *)
(* graph when that list is one of the graph's own adjacency lists.         *)
CallerChangesList ==
  /\ returned_list # <<>>
  /\ returned_list[1].changes < MaxCallerChanges
  /\ \E items \in ListChanges(returned_list[1].items) :
       /\ returned_list' = <<[returned_list[1] EXCEPT !.items = items,
                                                     !.changes = @ + 1]>>
       /\ graph' = IF /\ returned_list[1].object # <<>>
                      /\ returned_list[1].object[1] \in DOMAIN graph
                     THEN [graph EXCEPT ![returned_list[1].object[1]] = items]
                     ELSE graph
       /\ UNCHANGED <<vertex_count, edge_count>>
       /\ call' = [op |-> "list_change", args |-> <<items>>]
       /\ ret' = None

NextStore == Mutate \/ GetNeighbors \/ CallerChangesList

SpecStore == Init /\ [][NextStore]_vars

(* ---------------------------------------------------------------------- *)
(* The store with every query and every algorithm                          *)
(* ---------------------------------------------------------------------- *)

NextQueries ==
  \/ Mutate
  \/ Query
  \/ IsConnected \/ FindPath \/ GetConnectedComponents \/ IsTree
  \/ HasCycle \/ FindCycle \/ FindAllCycles \/ GetCycleBasis
  \/ BreadthFirstSearch \/ DepthFirstSearch \/ FindPathBfs \/ FindAllPathsDfs

SpecQueries == Init /\ [][NextQueries]_vars

(* ---------------------------------------------------------------------- *)
(* Graph theory the properties are stated in                               *)
(* ---------------------------------------------------------------------- *)

(* u and v are joined by an edge of g.                                     *)
Adjacent(g, u, v) == u \in DOMAIN g /\ InList(v, g[u])

(* The vertices that some path joins to a vertex of S.                     *)
RECURSIVE ReachableFrom(_, _)
ReachableFrom(g, S) ==
  LET T == S \cup {v \in DOMAIN g : \E u \in S : Adjacent(g, u, v)}
  IN  IF T = S THEN S ELSE ReachableFrom(g, T)

ComponentsOf(g) == {ReachableFrom(g, {v}) : v \in DOMAIN g}

(* The least number of edges of a path from a vertex of S to end, which   *)
(* is reachable from S; k is the number of edges already walked.           *)
RECURSIVE StepsTo(_, _, _, _)
StepsTo(g, S, end, k) ==
  IF end \in S THEN k
  ELSE StepsTo(g, S \cup {v \in DOMAIN g : \E u \in S : Adjacent(g, u, v)}, end, k + 1)

Distance(g, start, end) == StepsTo(g, {start}, end, 0)

(* path is a path of g: every consecutive pair is an edge.                 *)
IsPathOf(g, path) ==
  \A i \in 1..(Len(path) - 1) : Adjacent(g, path[i], path[i + 1])

(* cycle is a simple cycle of g: at least 3 pairwise distinct vertices,   *)
(* consecutive pairs and the pair (last, first) joined by edges.           *)
IsCycleOf(g, cycle) ==
  /\ Len(cycle) >= 3
  /\ \A i, j \in 1..Len(cycle) : i # j => cycle[i] # cycle[j]
  /\ IsPathOf(g, cycle)
  /\ Adjacent(g, cycle[Len(cycle)], cycle[1])

(* Every sequence of distinct vertices of g that is a simple cycle.        *)
SimpleCycles(g) ==
  {c \in UNION {IterOrders(T) : T \in SUBSET DOMAIN g} : IsCycleOf(g, c)}

(* b is the cyclic sequence a read from another of its entries.            *)
IsRotation(a, b) ==
  /\ Len(a) = Len(b)
  /\ \E k \in 0..(Len(a) - 1) :
       \A j \in 1..Len(a) : b[j] = a[((j - 1 + k) % Len(a)) + 1]

(* ---------------------------------------------------------------------- *)
(* Properties                                                              *)
(* ---------------------------------------------------------------------- *)

(* C1: after any sequence of add_vertex, add_edge, remove_vertex and      *)
(* remove_edge calls, those that return False or raise included, every    *)
(* two vertices v1, v2 of the graph have v2 in get_neighbors(v1) exactly  *)
(* when v1 is in get_neighbors(v2).                                        *)
SymmetricAdjacency ==
  \A v1, v2 \in get_vertices(Self) :
    InList(v2, get_neighbors(Self, v1).val[1]) <=> InList(v1, get_neighbors(Self, v2).val[1])

(* An edge has just been removed and another one is left.                  *)
EdgeRemovedEdgeLeft ==
  /\ call.op = "remove_edge"
  /\ ret = Returned(TRUE)
  /\ edge_count >= 1
  /\ \E v \in DOMAIN graph : Len(graph[v]) >= 1

(* C2: after any sequence of mutator calls the counters kept by the       *)
(* store are the recomputed values: size() is the number of distinct      *)
(* pairs in get_edges() and len() is the number of vertices in            *)
(* get_vertices(); so remove_vertex has taken one off _edge_count for     *)
(* each edge it removed.                                                   *)
CountersAreRecomputedValues ==
  /\ size(Self) = Cardinality({get_edges(Self)[i] : i \in 1..Len(get_edges(Self))})
  /\ len(Self) = Cardinality(get_vertices(Self))

(* A vertex has just been removed from three and the other two are still  *)
(* joined.                                                                 *)
VertexRemovedEdgeLeft ==
  /\ call.op = "remove_vertex"
  /\ ret = Returned(TRUE)
  /\ Cardinality(DOMAIN graph) = 2
  /\ Len(get_edges(Self)) = 1

(* C3: with start a vertex of the graph and end not one, find_path and    *)
(* find_path_bfs both return None and neither raises.                      *)
MissingEndIsNoPath ==
  (/\ call.op \in {"find_path", "find_path_bfs"}
   /\ call.args[1] \in DOMAIN graph
   /\ call.args[2] \notin DOMAIN graph)
  => ret = None

(* C4: has_cycle returns True exactly when the graph has a simple cycle   *)
(* of at least 3 vertices; on a forest it returns False, whatever the     *)
(* order in which the vertices are taken.                                  *)
HasCycleIffSimpleCycle ==
  call.op = "has_cycle" =>
    /\ ret.kind = "value"
    /\ ret.val[1] <=> (SimpleCycles(graph) # {})

(* C5: what find_cycle returns is a simple cycle of the graph (at least 3 *)
(* pairwise distinct vertices, consecutive pairs and the pair (last,      *)
(* first) edges), and it returns None when the graph has no simple cycle. *)
FindCycleReturnsSimpleCycle ==
  call.op = "find_cycle" =>
    /\ ret.kind = "value" => IsCycleOf(graph, ret.val[1])
    /\ SimpleCycles(graph) = {} => ret = None

(* C6: get_cycle_basis returns a list of exactly                          *)
(* size() - len() + (number of connected components) cycles.               *)
CycleBasisHasCycleSpaceDimension ==
  call.op = "get_cycle_basis" =>
    /\ ret.kind = "value"
    /\ Len(ret.val[1]) = size(Self) - len(Self) + Cardinality(ComponentsOf(graph))

(* C7: for present vertices start and end with end reachable from start,  *)
(* find_path and find_path_bfs return a list that begins with start, ends *)
(* with end, has every consecutive pair adjacent and has as many edges as *)
(* the distance of end from start.                                         *)
ReturnedPathIsShortest ==
  (/\ call.op \in {"find_path", "find_path_bfs"}
   /\ call.args[1] \in DOMAIN graph
   /\ call.args[2] \in ReachableFrom(graph, {call.args[1]}))
  => /\ ret.kind = "value"
     /\ Len(ret.val[1]) >= 1
     /\ ret.val[1][1] = call.args[1]
     /\ ret.val[1][Len(ret.val[1])] = call.args[2]
     /\ IsPathOf(graph, ret.val[1])
     /\ Len(ret.val[1]) - 1 = Distance(graph, call.args[1], call.args[2])

(* find_path has returned a path of two edges.                             *)
TwoEdgePathFound ==
  /\ call.op = "find_path"
  /\ ret.kind = "value"
  /\ Len(ret.val[1]) = 3

(* C8 as stated: on every graph, the empty one included, is_tree returns  *)
(* True exactly when is_connected does and size() = len() - 1.             *)
IsTreeIffConnectedWithEdgeCount ==
  call.op = "is_tree" =>
    (ret.val[1] <=>
       /\ \A order \in IterOrders(get_vertices(Self)) : is_connected(Self, order).val[1]
       /\ size(Self) = len(Self) - 1)

(* C8, amended: on every graph with at least one vertex is_tree returns   *)
(* True exactly when is_connected does and size() = len() - 1; on the     *)
(* empty graph is_tree and is_connected both return True.                  *)
IsTreeIffConnectedWithEdgeCountUnlessEmpty ==
  call.op = "is_tree" =>
    IF len(Self) = 0
      THEN /\ ret = Returned(TRUE)
           /\ \A order \in IterOrders(get_vertices(Self)) : is_connected(Self, order).val[1]
      ELSE ret.val[1] <=>
             /\ \A order \in IterOrders(get_vertices(Self)) : is_connected(Self, order).val[1]
             /\ size(Self) = len(Self) - 1

(* is_tree has returned True on a path of three vertices.                  *)
ThreeVertexTree ==
  /\ call.op = "is_tree"
  /\ ret = Returned(TRUE)
  /\ vertex_count = 3
  /\ edge_count = 2

(* C9: get_connected_components returns non-empty sets that are pairwise  *)
(* disjoint and whose union is get_vertices(), each of them the set of    *)
(* vertices reachable from any of its members, whichever unvisited vertex *)
(* each component was started from.                                        *)
ComponentsPartitionVertices ==
  call.op = "get_connected_components" =>
    LET components == ret.val[1]
    IN  /\ \A i \in 1..Len(components) : components[i] # {}
        /\ UNION {components[i] : i \in 1..Len(components)} = get_vertices(Self)
        /\ \A i, j \in 1..Len(components) :
             i # j => components[i] \cap components[j] = {}
        /\ \A i \in 1..Len(components) :
             \A v \in components[i] : components[i] = ReachableFrom(graph, {v})

(* Two components were returned, one of them with two vertices.            *)
TwoComponentsFound ==
  /\ call.op = "get_connected_components"
  /\ Len(ret.val[1]) = 2
  /\ \E i \in 1..2 : Cardinality(ret.val[1][i]) = 2

(* C10: find_all_cycles returns only simple cycles of the graph, returns  *)
(* for every simple cycle, in each of its two directions, one of its      *)
(* rotations, and returns no two lists that are rotations of one another. *)
AllCyclesOncePerRotationClass ==
  call.op = "find_all_cycles" =>
    LET cycles == ret.val[1]
    IN  /\ \A i \in 1..Len(cycles) : IsCycleOf(graph, cycles[i])
        /\ \A c \in SimpleCycles(graph) :
             \E i \in 1..Len(cycles) : IsRotation(c, cycles[i])
        /\ \A i, j \in 1..Len(cycles) :
             i # j => ~IsRotation(cycles[i], cycles[j])

(* The two directions of a triangle were returned.                         *)
TriangleBothDirections ==
  /\ call.op = "find_all_cycles"
  /\ Len(ret.val[1]) = 2
  /\ \A i \in 1..2 : Len(ret.val[1][i]) = 3

(* C11: add_edge(v, v) raises ValueError and leaves the graph as it was:  *)
(* v is not inserted when it was absent, and the adjacency lists and both *)
(* counters are the same as before the call.                               *)
SelfLoopRaisesAndChangesNothing ==
  [][(call'.op = "add_edge" /\ call'.args[1] = call'.args[2])
       => /\ ret' = Raised("ValueError")
          /\ graph' = graph
          /\ vertex_count' = vertex_count
          /\ edge_count' = edge_count]_vars

(* A self-loop on a vertex that is absent was refused on a graph that has *)
(* an edge.                                                                *)
SelfLoopOnAbsentVertexRefused ==
  /\ call.op = "add_edge"
  /\ call.args[1] = call.args[2]
  /\ ret.kind = "ValueError"
  /\ call.args[1] \notin DOMAIN graph
  /\ edge_count >= 1

(* C12: add_vertex(v) with v present, and add_edge(v1, v2) with that edge *)
(* present (the endpoints given in either order), return False and leave  *)
(* the vertices, every adjacency list and both counters unchanged.         *)
InsertingAgainChangesNothing ==
  [][(\/ call'.op = "add_vertex" /\ call'.args[1] \in DOMAIN graph
      \/ /\ call'.op = "add_edge"
         /\ \/ Adjacent(graph, call'.args[1], call'.args[2])
            \/ Adjacent(graph, call'.args[2], call'.args[1]))
       => /\ ret' = Returned(FALSE)
          /\ graph' = graph
          /\ vertex_count' = vertex_count
          /\ edge_count' = edge_count]_vars

(* add_edge has returned False on a graph with two edges.                  *)
EdgeAddedAgain ==
  /\ call.op = "add_edge"
  /\ ret = Returned(FALSE)
  /\ edge_count = 2

(* C16: remove_vertex(v) on a present v returns True, after it v is no    *)
(* vertex and is in no adjacency list, _edge_count is lower by the number *)
(* of neighbours v had, _vertex_count is lower by 1 and every edge        *)
(* between two other vertices is still there; on an absent v it returns   *)
(* False and changes nothing.                                              *)
RemoveVertexRemovesIncidentEdgesOnly ==
  [][call'.op = "remove_vertex" =>
       IF call'.args[1] \in DOMAIN graph
         THEN /\ ret' = Returned(TRUE)
              /\ DOMAIN graph' = DOMAIN graph \ {call'.args[1]}
              /\ \A u \in DOMAIN graph' : ~InList(call'.args[1], graph'[u])
              /\ edge_count' = edge_count - Len(graph[call'.args[1]])
              /\ vertex_count' = vertex_count - 1
              /\ \A u, w \in DOMAIN graph \ {call'.args[1]} :
                   InList(w, graph[u]) => InList(w, graph'[u])
         ELSE /\ ret' = Returned(FALSE)
              /\ graph' = graph
              /\ vertex_count' = vertex_count
              /\ edge_count' = edge_count]_vars

(* A vertex was removed and the two vertices left have no edge.            *)
VertexRemovedNoEdgeLeft ==
  /\ call.op = "remove_vertex"
  /\ ret = Returned(TRUE)
  /\ vertex_count = 2
  /\ edge_count = 0

(* list without its entries equal to x, the others in their order.        *)
Without(list, x) == SelectSeq(list, LAMBDA y : y # x)

(* The list of v before a call that may have created v.                    *)
ListBefore(v) == IF v \in DOMAIN graph THEN graph[v] ELSE <<>>

(* No adjacency list holds its own vertex or the same neighbour twice.     *)
NoSelfNoDuplicate ==
  \A v \in DOMAIN graph :
    /\ ~InList(v, graph[v])
    /\ \A i, j \in 1..Len(graph[v]) : i # j => graph[v][i] # graph[v][j]

DfsTimesNestAndFillClock ==
  (call.op = "depth_first_search" /\ ret.kind = "value") =>
    LET r == ret.val[1]
        d == r.discovery_times
        f == r.finish_times
        visited == {r.visited_order[i] : i \in 1..Len(r.visited_order)}
        n == Cardinality(visited)
    IN  /\ DOMAIN d = visited
        /\ DOMAIN f = visited
        /\ \A c \in visited \ {call.args[1]} :
             /\ r.predecessors[c] # <<>>
             /\ LET p == r.predecessors[c][1]
                IN  p \in visited /\ d[p] < d[c] /\ d[c] < f[c] /\ f[c] < f[p]
        /\ {d[v] : v \in visited} \cup {f[v] : v \in visited} = 1..(2 * n)
        /\ \A u, v \in visited :
             /\ d[u] # f[v]
             /\ u # v => (d[u] # d[v] /\ f[u] # f[v])

(* A search has visited three vertices, one of them through a vertex      *)
(* other than start.                                                       *)
DfsWentTwoDeep ==
  /\ call.op = "depth_first_search"
  /\ ret.kind = "value"
  /\ Len(ret.val[1].visited_order) = 3
  /\ \E c \in DOMAIN ret.val[1].predecessors :
       /\ ret.val[1].predecessors[c] # <<>>
       /\ ret.val[1].predecessors[c][1] # call.args[1]

(* The simple paths of g from s to e: sequences of distinct vertices,     *)
(* first s, last e, consecutive ones joined by an edge.                    *)
SimplePaths(g, s, e) ==
  {p \in UNION {IterOrders(T) : T \in SUBSET DOMAIN g} :
     p # <<>> /\ p[1] = s /\ p[Len(p)] = e /\ IsPathOf(g, p)}

(* C14: for start and end both vertices, find_all_paths_dfs returns       *)
(* exactly the simple paths from start to end: every returned path is     *)
(* one, every one is returned, none twice; with start = end the result is *)
(* the one path [start].                                                   *)
AllPathsAreTheSimplePaths ==
  (call.op = "find_all_paths_dfs" /\ call.args[1] \in DOMAIN graph
                                  /\ call.args[2] \in DOMAIN graph) =>
    /\ ret.kind = "value"
    /\ LET paths == ret.val[1]
       IN  /\ {paths[i] : i \in 1..Len(paths)}
                = SimplePaths(graph, call.args[1], call.args[2])
           /\ \A i, j \in 1..Len(paths) : i # j => paths[i] # paths[j]
           /\ call.args[1] = call.args[2] => paths = <<<<call.args[1]>>>>

(* Two paths were returned: the edge and the way round the triangle.       *)
TwoPathsAcrossTriangle ==
  /\ call.op = "find_all_paths_dfs"
  /\ ret.kind = "value"
  /\ Len(ret.val[1]) = 2

ReturnedListIsACopy ==
  [][call'.op = "list_change" =>
       /\ graph' = graph
       /\ vertex_count' = vertex_count
       /\ edge_count' = edge_count
       /\ get_neighbors([graph |-> graph', vertex_count |-> vertex_count',
                         edge_count |-> edge_count'], returned_list[1].vertex)
            = get_neighbors(Self, returned_list[1].vertex)]_vars

(* The caller has changed its list of a vertex that has neighbours, and   *)
(* the list is no longer what the graph holds for the vertex.              *)
CallerListDiffersFromGraph ==
  /\ call.op = "list_change"
  /\ returned_list # <<>>
  /\ returned_list[1].vertex \in DOMAIN graph
  /\ graph[returned_list[1].vertex] # <<>>
  /\ returned_list[1].items # graph[returned_list[1].vertex]

(* The names under which the queries and the algorithms are recorded.     *)
QueryOps ==
  {"get_vertices", "get_neighbors", "get_edges", "__len__", "size",
   "is_connected", "find_path", "get_connected_components", "is_tree",
   "has_cycle", "find_cycle", "find_all_cycles", "get_cycle_basis",
   "breadth_first_search", "depth_first_search", "find_path_bfs",
   "find_all_paths_dfs"}

(* C18: no query and no algorithm changes the graph: after any call of    *)
(* get_vertices, get_neighbors, get_edges, len, size, is_connected,       *)
(* find_path, get_connected_components, is_tree, has_cycle, find_cycle,   *)
(* find_all_cycles, get_cycle_basis, breadth_first_search,                *)
(* depth_first_search, find_path_bfs or find_all_paths_dfs, returning or  *)
(* raising, on present or absent vertices, the vertices, the adjacency    *)
(* lists and both counters are what they were before the call.            *)
QueriesLeaveGraphAlone ==
  [][call'.op \in QueryOps =>
       /\ graph' = graph
       /\ vertex_count' = vertex_count
       /\ edge_count' = edge_count]_vars

(* get_neighbors has raised for a vertex that is absent from a graph that *)
(* has an edge.                                                            *)
NeighborsOfAbsentVertexAsked ==
  /\ call.op = "get_neighbors"
  /\ ret.kind = "KeyError"
  /\ edge_count >= 1

====
